---- MODULE Spec2Model ----
(***************************************************************************)
(* McOrder Dash: the per-player order-fulfilment state machine of          *)
(* src/classes/GameManager.ts and the join / leave / restart plumbing of   *)
(* src/index.ts (second script, lines 461-552).                            *)
(*                                                                         *)
(* A PlayerGameState object lives in a small heap (objs); the Map          *)
(* playerGameStates binds a player id to one heap object.  setTimeout      *)
(* callbacks close over the heap object, not over the player id, so an     *)
(* object that was replaced or removed from the Map is still reachable     *)
(* from its pending callbacks.                                             *)
(***************************************************************************)
EXTENDS Integers, Sequences, FiniteSets, TLC

\* ---------------------------------------------------------------- bounds
MaxObjs == 1          \* PlayerGameState objects alive at the same time (Spec)
MaxPending == 2       \* setTimeout callbacks pending at the same time
MaxOrders == 2        \* orders started by one object since creation / restart (Spec)
RejoinObjs == 2       \* PlayerGameState objects alive at the same time (SpecRejoin)
RejoinOrders == 1     \* orders started by one object (SpecRejoin)
NumExtraCodes == 1    \* extra items are drawn from the first NumExtraCodes codes
MaxInRange == 2       \* items inside the collection radius in one tick
MaxLeaked == 1        \* leaked item entities are counted up to MaxLeaked
FairOrders == 2       \* orders started by one object (SpecFair)
FairInRange == 1      \* items inside the collection radius in one tick (SpecFair)
FairSwaps == 0        \* shuffle iterations that may move an element (SpecFair)
TwoObjs == 2          \* PlayerGameState objects alive at the same time (SpecTwo)
TwoOrders == 1        \* orders started by one object (SpecTwo)
TwoInRange == 1       \* items inside the collection radius in one tick (SpecTwo)
OtherInRange == 0     \* the same for the players outside MainPlayers (SpecTwo)
TwoSwaps == 1         \* shuffle iterations that draw freely (SpecTwo)
CollectorCodes == 2   \* Item Collector: codes are drawn from the first CollectorCodes of allCodes
MaxItems == 2         \* Item Collector: entries of one state's item list
MaxIntervals == 2     \* Item Collector: spawn intervals created for one player id
ClockStep == 1500     \* Item Collector: milliseconds between two readings of the clock
MaxClockSteps == 3    \* Item Collector: clock readings after the first
ScoreCap == 100       \* Item Collector: collections are explored while score < ScoreCap
Epoch == 10000        \* Item Collector: Date.now() when the server starts

\* ------------------------------------------------------ program constants
ITEMS_PER_ORDER == 5
SCORE_PER_ITEM == 10
SCORE_PER_ORDER == 100
TIME_LIMIT_PER_ORDER == 60000
INITIAL_LIVES == 3
JOIN_START_DELAY == 2000
NEXT_ORDER_DELAY == 2000
RESTART_DELAY == 1000

\* CONFIG of the Item Collector variant
POINTS_PER_ITEM == 10
POINTS_PER_ORDER == 50
COMBO_TIME_WINDOW == 3000
ORDER_LENGTH == 3

\* Object.keys(GAME_CONFIG.ITEM_TYPES), in declaration order
ItemCodes == <<"B", "F", "N", "D", "I">>

ITEM_TYPES == {ItemCodes[i] : i \in 1..Len(ItemCodes)}

\* the catalog with a fifth item in the family order
ORDERSFamilyOfFive ==
  << <<"B", "F">>,
     <<"B", "F", "D">>,
     <<"N", "I">>,
     <<"F", "D", "B", "N", "I">>,
     <<"I", "B">> >>

ORDERS ==
  << <<"B", "F">>,
     <<"B", "F", "D">>,
     <<"N", "I">>,
     <<"F", "D", "B", "N">>,
     <<"I", "B">> >>

Players == {"p1", "p2"}

MainPlayers == {"p1"}

ObjIds == 1..(CHOOSE n \in {MaxObjs, RejoinObjs, TwoObjs} :
                 \A m \in {MaxObjs, RejoinObjs, TwoObjs} : m <= n)

VARIABLES
  objs,              \* heap: ObjIds -> PlayerGameState record
  playerGameStates,  \* the Map, in insertion order: sequence of [id, obj]
  hasEntity,         \* player id -> the player has a player entity in the world
  pending,           \* pending setTimeout callbacks, in scheduling order
  leaked,            \* item entities still spawned that no live object references
  playerStates,      \* Item Collector: player id -> PlayerState record
  spawnIntervals,    \* Item Collector: player id -> spawn intervals not yet cleared
  now                \* Item Collector: Date.now()

collectorVars == <<playerStates, spawnIntervals, now>>

vars == <<objs, playerGameStates, hasEntity, pending, leaked,
          playerStates, spawnIntervals, now>>

\* ------------------------------------------------------------ the records
NoState ==
  [alloc |-> FALSE, score |-> 0, lives |-> 0, currentOrder |-> <<>>,
   orderProgress |-> 0, orderCount |-> 0, isGameOver |-> FALSE,
   worldItems |-> <<>>, orderTimer |-> 0, nearbyItemsNotified |-> {},
   player |-> "none"]

initGameState(p) ==
  [alloc |-> TRUE, score |-> 0, lives |-> INITIAL_LIVES, currentOrder |-> <<>>,
   orderProgress |-> 0, orderCount |-> 0, isGameOver |-> FALSE,
   worldItems |-> <<>>, orderTimer |-> 0, nearbyItemsNotified |-> {},
   player |-> p]

StartCb(o, d) == [kind |-> "start", obj |-> o, handle |-> 0, delay |-> d]

ExpiryCb(o, h) ==
  [kind |-> "expiry", obj |-> o, handle |-> h, delay |-> TIME_LIMIT_PER_ORDER]

\* ------------------------------------------------------------ Map helpers
getGameState(pgs, p) ==
  IF \E i \in 1..Len(pgs) : pgs[i].id = p
    THEN pgs[CHOOSE i \in 1..Len(pgs) : pgs[i].id = p].obj
    ELSE 0

setGameState(pgs, p, o) ==
  IF \E i \in 1..Len(pgs) : pgs[i].id = p
    THEN [i \in 1..Len(pgs) |->
            IF pgs[i].id = p THEN [id |-> p, obj |-> o] ELSE pgs[i]]
    ELSE Append(pgs, [id |-> p, obj |-> o])

removeGameState(pgs, p) == SelectSeq(pgs, LAMBDA e : e.id # p)

\* ---------------------------------------------------------- timer helpers
\* a clearTimeout that drops every expiry timer, whatever its handle
clearTimeoutAll(q, h) == SelectSeq(q, LAMBDA e : e.kind # "expiry")

\* clearTimeout(handle): the callback armed under that handle never runs
clearTimeout(q, h) ==
  SelectSeq(q, LAMBDA e : ~(e.kind = "expiry" /\ e.handle = h))

\* a Timeout object is a fresh object: no callback and no other session holds it
FreshHandle(q, os, o) ==
  LET used == {q[i].handle : i \in 1..Len(q)}
                \cup {os[x].orderTimer : x \in ObjIds \ {o}}
  IN CHOOSE h \in 1..(MaxPending + Cardinality(ObjIds) + 1) :
       /\ h \notin used
       /\ \A k \in 1..(h - 1) : k \in used

\* timers run in deadline order: a callback armed earlier with a delay that is
\* not longer has an earlier deadline and runs first
CanFire(q, i) == \A j \in 1..(i - 1) : q[j].delay > q[i].delay

RemoveAt(q, i) == [k \in 1..(Len(q) - 1) |-> IF k < i THEN q[k] ELSE q[k + 1]]

\* ---------------------------------------------------- the state machine
\* A context c is the object being mutated (st), the callback queue (q), the
\* ids of the item entities of this object that are spawned (sp) and the
\* heap (os, read only for handle allocation).  The handler's outputs to the
\* host are collected in msgs (the sendPlayerMessage calls, in order) and tp
\* (the player entity was moved to SAFE_SPAWN_Y).
Ids(items) == {items[i].id : i \in 1..Len(items)}

Ctx(os, o, q) ==
  [st |-> os[o], q |-> q, sp |-> Ids(os[o].worldItems), os |-> os,
   msgs |-> <<>>, tp |-> FALSE, fail |-> {}, thrown |-> FALSE,
   stale |-> FALSE]

\* c.sp holds the ids of the session's items with isSpawned true; c.stale says
\* that this handler called despawn() on an item whose isSpawned was false.
\* The sounds a handler plays.  c.fail holds the sounds whose play() throws
\* while this handler runs; c.thrown says that an exception is propagating,
\* so the rest of the handler is skipped.
Sounds == {"collect", "drop", "game-over"}

CtxFail(os, o, q, fail) == [Ctx(os, o, q) EXCEPT !.fail = fail]

\* new Audio(...).play(world) outside any try/catch
playAudio(c, sound) == IF sound \in c.fail THEN [c EXCEPT !.thrown = TRUE] ELSE c

\* try { new Audio(...).play(world) } catch (e) { console.log(...) }
tryPlayAudio(c, sound) == [playAudio(c, sound) EXCEPT !.thrown = c.thrown]

\* world.chatManager.sendPlayerMessage(state.player, ...): kind names the
\* message, code the item code or reason the text carries
sendPlayerMessage(c, kind, code) ==
  [c EXCEPT !.msgs = Append(@, [to |-> c.st.player, kind |-> kind, code |-> code])]

CancelOrderTimer(c) ==
  IF c.st.orderTimer # 0
    THEN [c EXCEPT !.q = clearTimeout(@, c.st.orderTimer)]
    ELSE c

clearWorldItems(c) ==
  [c EXCEPT !.sp = @ \ Ids(c.st.worldItems), !.st.worldItems = <<>>]

endGame(c) ==
  LET c1 == playAudio(
              clearWorldItems(CancelOrderTimer([c EXCEPT !.st.isGameOver = TRUE])),
              "game-over")
  IN IF c1.thrown THEN c1 ELSE sendPlayerMessage(c1, "game-over", "")

\* loseLife ending the game only below zero lives
loseLifeBelowZero(c, reason) ==
  IF c.st.isGameOver THEN c
  ELSE LET c1 == sendPlayerMessage([c EXCEPT !.st.lives = @ - 1], "mistake", reason)
       IN IF c1.st.lives < 0
            THEN endGame(c1)
            ELSE sendPlayerMessage([c1 EXCEPT !.st.orderProgress = 0], "reset", "")

\* loseLife without the progress reset
loseLifeKeepProgress(c, reason) ==
  IF c.st.isGameOver THEN c
  ELSE LET c1 == sendPlayerMessage([c EXCEPT !.st.lives = @ - 1], "mistake", reason)
       IN IF c1.st.lives <= 0 THEN endGame(c1)
          ELSE sendPlayerMessage(c1, "reset", "")

\* loseLife clearing the items on every life loss
loseLifeClearsItems(c, reason) ==
  IF c.st.isGameOver THEN c
  ELSE LET c0 == playAudio([c EXCEPT !.st.lives = @ - 1], "drop")
           c1 == sendPlayerMessage(c0, "mistake", reason)
       IN IF c0.thrown THEN c0
          ELSE IF c1.st.lives <= 0
            THEN endGame(c1)
            ELSE sendPlayerMessage(clearWorldItems([c1 EXCEPT !.st.orderProgress = 0]),
                                   "reset", "")

\* loseLife taking SCORE_PER_ITEM off the score as well
loseLifeScorePenalty(c, reason) ==
  IF c.st.isGameOver THEN c
  ELSE LET c0 == playAudio([c EXCEPT !.st.lives = @ - 1,
                                          !.st.score = @ - SCORE_PER_ITEM],
                                "drop")
           c1 == sendPlayerMessage(c0, "mistake", reason)
       IN IF c0.thrown THEN c0
          ELSE IF c1.st.lives <= 0
            THEN endGame(c1)
            ELSE sendPlayerMessage([c1 EXCEPT !.st.orderProgress = 0], "reset", "")

\* reason: the required code of a wrong collection, "time" for an expiry
loseLife(c, reason) ==
  IF c.st.isGameOver THEN c
  ELSE LET c0 == playAudio([c EXCEPT !.st.lives = @ - 1], "drop")
           c1 == sendPlayerMessage(c0, "mistake", reason)
       IN IF c0.thrown THEN c0
          ELSE IF c1.st.lives <= 0
            THEN endGame(c1)
            ELSE sendPlayerMessage([c1 EXCEPT !.st.orderProgress = 0], "reset", "")

\* the fulfilled branch without the clearTimeout
orderFulfilledKeepTimer(c, o) ==
  LET c3 == [c EXCEPT !.st.score = @ + SCORE_PER_ORDER]
      c4 == clearWorldItems(sendPlayerMessage(c3, "complete", ""))
  IN [c4 EXCEPT !.q = Append(@, StartCb(o, NEXT_ORDER_DELAY))]

\* the fulfilled branch without the order bonus
orderFulfilledNoBonus(c, o) ==
  LET c4 == clearWorldItems(sendPlayerMessage(CancelOrderTimer(c), "complete", ""))
  IN [c4 EXCEPT !.q = Append(@, StartCb(o, NEXT_ORDER_DELAY))]

\* the fulfilled branch without the delayed startNewOrder
orderFulfilledNoStart(c, o) ==
  LET c3 == CancelOrderTimer([c EXCEPT !.st.score = @ + SCORE_PER_ORDER])
  IN clearWorldItems(sendPlayerMessage(c3, "complete", ""))

\* the "Order fulfilled!" branch of processItemCollection
orderFulfilled(c, o) ==
  LET c3 == CancelOrderTimer([c EXCEPT !.st.score = @ + SCORE_PER_ORDER])
      c4 == clearWorldItems(sendPlayerMessage(c3, "complete", ""))
  IN [c4 EXCEPT !.q = Append(@, StartCb(o, NEXT_ORDER_DELAY))]

\* the correct-item branch without the next-item hint
collectCorrectNoHint(c, o, item) ==
  LET c0 == sendPlayerMessage([c EXCEPT !.st.orderProgress = @ + 1,
                                         !.st.score = @ + SCORE_PER_ITEM],
                              "collected", item.code)
      c2 == [c0 EXCEPT !.sp = @ \ {item.id},
                       !.st.worldItems = SelectSeq(@, LAMBDA i : i.id # item.id)]
  IN IF c2.st.orderProgress = Len(c2.st.currentOrder)
       THEN orderFulfilled(c2, o)
       ELSE c2

\* the correct-item branch removing the items by code, not by entity id
collectCorrectByCode(c, o, item) ==
  LET c0 == sendPlayerMessage(
              tryPlayAudio([c EXCEPT !.st.orderProgress = @ + 1,
                                     !.st.score = @ + SCORE_PER_ITEM], "collect"),
              "collected", item.code)
      c1 == IF c0.st.orderProgress < Len(c0.st.currentOrder)
              THEN sendPlayerMessage(c0, "next",
                                     c0.st.currentOrder[c0.st.orderProgress + 1])
              ELSE c0
      c2 == [c1 EXCEPT !.sp = @ \ {item.id},
                       !.stale = @ \/ item.id \notin c1.sp,
                       !.st.worldItems = SelectSeq(@, LAMBDA i : i.code # item.code)]
  IN IF c2.st.orderProgress = Len(c2.st.currentOrder)
       THEN orderFulfilled(c2, o)
       ELSE c2

\* the correct-item branch of processItemCollection
collectCorrect(c, o, item) ==
  LET c0 == sendPlayerMessage(
              tryPlayAudio([c EXCEPT !.st.orderProgress = @ + 1,
                                     !.st.score = @ + SCORE_PER_ITEM], "collect"),
              "collected", item.code)
      c1 == IF c0.st.orderProgress < Len(c0.st.currentOrder)
              THEN sendPlayerMessage(c0, "next",
                                     c0.st.currentOrder[c0.st.orderProgress + 1])
              ELSE c0
      c2 == [c1 EXCEPT !.sp = @ \ {item.id},
                       !.stale = @ \/ item.id \notin c1.sp,
                       !.st.worldItems = SelectSeq(@, LAMBDA i : i.id # item.id)]
  IN IF c2.st.orderProgress = Len(c2.st.currentOrder)
       THEN orderFulfilled(c2, o)
       ELSE c2

\* processItemCollection without the isSpawned guard
processItemCollectionNoSpawnCheck(c, o, item) ==
  IF c.st.orderProgress = Len(c.st.currentOrder) THEN c
  ELSE IF item.code = c.st.currentOrder[c.st.orderProgress + 1]
    THEN collectCorrect(c, o, item)
    ELSE loseLife(c, c.st.currentOrder[c.st.orderProgress + 1])

processItemCollection(c, o, item) ==
  IF item.id \notin c.sp THEN c
  ELSE IF c.st.orderProgress = Len(c.st.currentOrder) THEN c
  ELSE IF item.code = c.st.currentOrder[c.st.orderProgress + 1]
    THEN collectCorrect(c, o, item)
    ELSE loseLife(c, c.st.currentOrder[c.st.orderProgress + 1])

\* the Fisher-Yates loop of startNewOrder; js[i] is the index drawn for i
\* a swap that loses the element at i
SwapOverwrite(s, i, j) == [s EXCEPT ![i] = s[j]]

Swap(s, i, j) == [s EXCEPT ![i] = s[j], ![j] = s[i]]

RECURSIVE shuffle(_, _, _)
shuffle(s, js, i) ==
  IF i < 2 THEN s ELSE shuffle(Swap(s, i, js[i]), js, i - 1)

ShuffleDraws(n) == {js \in [2..n -> 1..n] : \A i \in 2..n : js[i] <= i}

\* the draws in which only the first `swaps` iterations (i = n, n-1, ...) move
\* an element
DrawsWithin(n, swaps) ==
  {js \in ShuffleDraws(n) : \A i \in 2..n : i <= n - swaps => js[i] = i}

\* FoodItemEntity.spawn: no entity for a code that is not in ITEM_TYPES
RECURSIVE spawnAll(_, _, _)
spawnAll(items, codes, k) ==
  IF k > Len(codes) THEN items
  ELSE spawnAll(IF codes[k] \in ITEM_TYPES
                  THEN Append(items, [id |-> k, code |-> codes[k]])
                  ELSE items,
                codes, k + 1)

\* the random index without the + 1 that skips the tutorial
SelectOrderAnyTemplate(orderCount, r) ==
  IF orderCount = 1 THEN ORDERS[1] ELSE ORDERS[r - 1]

SelectOrder(orderCount, r) == IF orderCount = 1 THEN ORDERS[1] ELSE ORDERS[r]

NumExtra(order) ==
  IF ITEMS_PER_ORDER > Len(order) THEN ITEMS_PER_ORDER - Len(order) ELSE 0

\* the batch before the shuffle: the order, then the random extra codes
itemsToSpawn(order, ex) == order \o [i \in 1..NumExtra(order) |-> ItemCodes[ex[i]]]

\* r: the random template index, ex: the random extra codes, js: the shuffle
\* the head of startNewOrder without the clearTimeout
clearPreviousOrderKeepTimer(c) ==
  LET c1 == [c EXCEPT !.st.orderCount = @ + 1]
  IN [clearWorldItems(c1) EXCEPT !.st.nearbyItemsNotified = {}]

\* the head of startNewOrder: count the order, drop the old items and timer
clearPreviousOrder(c) ==
  LET c1 == [c EXCEPT !.st.orderCount = @ + 1]
      c2 == [clearWorldItems(c1) EXCEPT !.st.nearbyItemsNotified = {}]
  IN CancelOrderTimer(c2)

\* the code's display name: ITEM_TYPES[code].name throws for an unknown code
hasName(code) == code \in ITEM_TYPES

\* startNewOrder forgetting to arm the expiry timer
placeOrderNoTimer(c3, o, order, ex, js) ==
  LET batch == itemsToSpawn(order, ex)
      shuffled == shuffle(batch, js, Len(batch))
      items == spawnAll(c3.st.worldItems, shuffled, 1)
      h == FreshHandle(c3.q, c3.os, o)
      c4 == [c3 EXCEPT !.st.currentOrder = order,
                       !.st.orderProgress = 0,
                       !.st.worldItems = items,
                       !.sp = @ \cup Ids(items)]
      c5 == sendPlayerMessage(sendPlayerMessage(sendPlayerMessage(
              sendPlayerMessage(c4, "new-order", ""),
              "spawned", ""), "how-to", ""), "colors", "")
  IN IF \E i \in 1..Len(order) : ~hasName(order[i])
       THEN [c4 EXCEPT !.thrown = TRUE]
       ELSE c5

\* startNewOrder from the selected order on: batch, shuffle, placement, the
\* four messages and the expiry timer
placeOrder(c3, o, order, ex, js) ==
  LET batch == itemsToSpawn(order, ex)
      shuffled == shuffle(batch, js, Len(batch))
      items == spawnAll(c3.st.worldItems, shuffled, 1)
      h == FreshHandle(c3.q, c3.os, o)
      c4 == [c3 EXCEPT !.st.currentOrder = order,
                       !.st.orderProgress = 0,
                       !.st.worldItems = items,
                       !.sp = @ \cup Ids(items)]
      c5 == sendPlayerMessage(sendPlayerMessage(sendPlayerMessage(
              sendPlayerMessage(c4, "new-order", ""),
              "spawned", ""), "how-to", ""), "colors", "")
  IN IF \E i \in 1..Len(order) : ~hasName(order[i])
       THEN [c4 EXCEPT !.thrown = TRUE]
       ELSE [c5 EXCEPT !.st.orderTimer = h,
                       !.q = Append(@, ExpiryCb(o, h))]

startNewOrder(c, o, present, r, ex, js) ==
  LET c3 == clearPreviousOrder(c)
  IN IF ~present THEN c3
     ELSE placeOrder(c3, o, SelectOrder(c3.st.orderCount, r), ex, js)

\* the order-expiry callback armed by startNewOrder
\* the callback without the orderProgress test
orderTimerCallbackAlways(c) ==
  IF ~c.st.isGameOver THEN loseLife(c, "time") ELSE c

orderTimerCallback(c) ==
  IF ~c.st.isGameOver /\ c.st.orderProgress < Len(c.st.currentOrder)
    THEN loseLife(c, "time")
    ELSE c

\* the item loop of the TICK handler over the array captured by forEach
RECURSIVE tickItems(_, _, _, _, _, _)
tickItems(c, o, items, i, collect, band) ==
  IF i > Len(items) THEN c
  ELSE LET item == items[i]
           c1 == IF item.id \in band /\ item.id \notin c.st.nearbyItemsNotified
                   THEN [sendPlayerMessage(c, "nearby", item.code)
                           EXCEPT !.st.nearbyItemsNotified = @ \cup {item.id}]
                   ELSE c
           c2 == IF item.id \in collect
                   THEN processItemCollection(
                          [c1 EXCEPT !.st.nearbyItemsNotified = @ \ {item.id}],
                          o, item)
                   ELSE c1
           c3 == IF item.id \notin c.sp THEN c ELSE c2
       IN IF c3.thrown THEN c3
          ELSE tickItems(c3, o, items, i + 1, collect, band)

\* the fall-safety teleport of the TICK handler
safeTeleport(c) == sendPlayerMessage([c EXCEPT !.tp = TRUE], "teleported", "")

\* the tick of one session without the missing-entity return
tickSessionNoEntityCheck(c, o, present, low, collect, band) ==
  IF ~c.st.alloc THEN c
  ELSE IF c.st.isGameOver THEN c
  ELSE tickItems(IF low THEN safeTeleport(c) ELSE c,
                 o, c.st.worldItems, 1, collect, band)

\* the tick of one session without the isGameOver return
tickSessionAlsoGameOver(c, o, present, low, collect, band) ==
  IF ~c.st.alloc \/ ~present THEN c
  ELSE tickItems(IF low THEN safeTeleport(c) ELSE c,
                 o, c.st.worldItems, 1, collect, band)

\* One session in the TICK handler.  Positions enter through low, collect and
\* band: the player is below MIN_SAFE_Y on this tick, and the ids of the
\* items inside the collection radius and inside the nearby band.
tickSession(c, o, present, low, collect, band) ==
  IF ~c.st.alloc \/ ~present THEN c
  ELSE IF c.st.isGameOver THEN c
  ELSE tickItems(IF low THEN safeTeleport(c) ELSE c,
                 o, c.st.worldItems, 1, collect, band)

\* ------------------------------------------------------------ bookkeeping
Referenced(o, pgs, q) ==
  \/ \E i \in 1..Len(pgs) : pgs[i].obj = o
  \/ \E i \in 1..Len(q) : q[i].obj = o

Garbage(os, pgs, q) == {o \in ObjIds : os[o].alloc /\ ~Referenced(o, pgs, q)}

Min(a, b) == IF a < b THEN a ELSE b

RECURSIVE SumItems(_, _)
SumItems(os, S) ==
  IF S = {} THEN 0
  ELSE LET o == CHOOSE x \in S : TRUE
       IN Len(os[o].worldItems) + SumItems(os, S \ {o})

\* An object that neither the Map nor a pending callback references is
\* reclaimed; the item entities it still held stay spawned in the world.
\* no PlayerState of the Item Collector variant
NoPlayerState ==
  [present |-> FALSE, score |-> 0, combo |-> 0, lastCollectionTime |-> 0,
   items |-> <<>>, currentOrder |-> <<>>, orderProgress |-> 0]

\* the Item Collector variant after its server has started: an empty Map, no interval
CollectorInit ==
  /\ playerStates = [p \in Players |-> NoPlayerState]
  /\ spawnIntervals = [p \in Players |-> 0]
  /\ now = Epoch

Commit(os, pgs, q) ==
  LET g == Garbage(os, pgs, q)
  IN /\ Len(q) <= MaxPending
     /\ objs' = [o \in ObjIds |-> IF o \in g THEN NoState ELSE os[o]]
     /\ playerGameStates' = pgs
     /\ pending' = q
     /\ leaked' = Min(leaked + SumItems(os, g), MaxLeaked)
     /\ UNCHANGED collectorVars

FreeObj(os) == CHOOSE o \in ObjIds : ~os[o].alloc /\ \A k \in 1..(o - 1) : os[k].alloc

\* ---------------------------------------------------------------- actions
Init ==
  /\ objs = [o \in ObjIds |-> NoState]
  /\ playerGameStates = <<>>
  /\ hasEntity = [p \in Players |-> FALSE]
  /\ pending = <<>>
  /\ leaked = 0
  /\ CollectorInit

\* PlayerEvent.JOINED_WORLD
JoinedWorld(p, maxObjs) ==
  /\ Cardinality({o \in ObjIds : objs[o].alloc}) < maxObjs
  /\ LET o == FreeObj(objs)
         os == [objs EXCEPT ![o] = initGameState(p)]
     IN Commit(os, setGameState(playerGameStates, p, o),
               Append(pending, StartCb(o, JOIN_START_DELAY)))
  /\ hasEntity' = [hasEntity EXCEPT ![p] = TRUE]

\* PlayerEvent.LEFT_WORLD
LeftWorld(p) ==
  LET o == getGameState(playerGameStates, p)
      q == IF o # 0 /\ objs[o].orderTimer # 0
             THEN clearTimeout(pending, objs[o].orderTimer)
             ELSE pending
  IN /\ Commit(objs, removeGameState(playerGameStates, p), q)
     /\ hasEntity' = [hasEntity EXCEPT ![p] = FALSE]

\* the reset block without the orderProgress line
resetStateKeepProgress(st) ==
  [st EXCEPT !.score = 0, !.lives = INITIAL_LIVES, !.currentOrder = <<>>,
             !.orderCount = 0, !.isGameOver = FALSE]

\* the reset block without the orderCount line
resetStateKeepOrderCount(st) ==
  [st EXCEPT !.score = 0, !.lives = INITIAL_LIVES, !.currentOrder = <<>>,
             !.orderProgress = 0, !.isGameOver = FALSE]

\* the "Reset state" block of the /restart command
resetState(st) ==
  [st EXCEPT !.score = 0, !.lives = INITIAL_LIVES, !.currentOrder = <<>>,
             !.orderProgress = 0, !.orderCount = 0, !.isGameOver = FALSE]

\* the /restart chat command
Restart(p) ==
  /\ getGameState(playerGameStates, p) # 0 \/ \E o \in ObjIds : ~objs[o].alloc
  /\ LET had == getGameState(playerGameStates, p) # 0
         o == IF had THEN getGameState(playerGameStates, p) ELSE FreeObj(objs)
         os0 == IF had THEN objs ELSE [objs EXCEPT ![o] = initGameState(p)]
         pgs == IF had THEN playerGameStates
                       ELSE setGameState(playerGameStates, p, o)
         c == CancelOrderTimer(Ctx(os0, o, pending))
     IN Commit([os0 EXCEPT ![o] = resetState(c.st)], pgs,
               Append(c.q, StartCb(o, RESTART_DELAY)))
  /\ UNCHANGED hasEntity

\* WorldEvent.TICK for the sessions of the Map, in Map order
\* has[p]: getPlayerEntitiesByPlayer finds an entity of player p
RECURSIVE tickAll(_, _, _, _, _, _)
tickAll(os, q, pgs, i, inp, has) ==
  IF i > Len(pgs) THEN [os |-> os, q |-> q]
  ELSE LET p == pgs[i].id
           o == pgs[i].obj
           c == tickSession(CtxFail(os, o, q, inp[p].fail), o, has[p],
                            inp[p].low, inp[p].collect, inp[p].band)
       IN IF c.thrown THEN [os |-> [os EXCEPT ![o] = c.st], q |-> c.q]
          ELSE tickAll([os EXCEPT ![o] = c.st], c.q, pgs, i + 1, inp, has)

TickInputs(p, maxInRange) ==
  LET o == getGameState(playerGameStates, p)
      ids == IF o = 0 \/ ~hasEntity[p] \/ objs[o].isGameOver
               THEN {} ELSE Ids(objs[o].worldItems)
  IN {[low |-> l, collect |-> cs, band |-> {}, fail |-> {}] :
        l \in (IF o = 0 \/ ~hasEntity[p] THEN {FALSE} ELSE BOOLEAN),
        cs \in {s \in SUBSET ids : Cardinality(s) <= maxInRange}}

\* one input per player of S
\* reach[p]: how many items player p can have in reach in one tick
RECURSIVE AllTickInputs(_, _)
AllTickInputs(S, reach) ==
  IF S = {} THEN {[p \in {} |-> 0]}
  ELSE LET p == CHOOSE x \in S : TRUE
       IN {[x \in S |-> IF x = p THEN i ELSE f[x]] :
             i \in TickInputs(p, reach[p]),
             f \in AllTickInputs(S \ {p}, reach)}

Tick(reach) ==
  /\ \E inp \in AllTickInputs(Players, reach) :
       LET r == tickAll(objs, pending, playerGameStates, 1, inp, hasEntity)
       IN Commit(r.os, playerGameStates, r.q)
  /\ UNCHANGED hasEntity

\* a delayed startNewOrder callback (from join, completion or /restart) runs
FireStart(i, maxOrders, numCodes, swaps) ==
  /\ i \in 1..Len(pending)
  /\ pending[i].kind = "start"
  /\ CanFire(pending, i)
  /\ LET o == pending[i].obj
         q == RemoveAt(pending, i)
         c == Ctx(objs, o, q)
         present == hasEntity[objs[o].player]
         first == objs[o].orderCount + 1 = 1
     IN /\ objs[o].orderCount < maxOrders
        /\ \E r \in (IF first \/ ~present THEN {2} ELSE 2..Len(ORDERS)) :
             LET order == SelectOrder(objs[o].orderCount + 1, r)
             IN \E ex \in (IF present THEN [1..NumExtra(order) -> 1..numCodes]
                                      ELSE {<<>>}) :
                  \E js \in (IF present
                               THEN DrawsWithin(Len(order) + NumExtra(order), swaps)
                               ELSE {<<>>}) :
                    LET c2 == startNewOrder(c, o, present, r, ex, js)
                    IN Commit([objs EXCEPT ![o] = c2.st], playerGameStates, c2.q)
  /\ UNCHANGED hasEntity

\* an order-expiry timer runs
FireExpiry(i) ==
  /\ i \in 1..Len(pending)
  /\ pending[i].kind = "expiry"
  /\ CanFire(pending, i)
  /\ LET o == pending[i].obj
         c2 == orderTimerCallback(Ctx(objs, o, RemoveAt(pending, i)))
     IN Commit([objs EXCEPT ![o] = c2.st], playerGameStates, c2.q)
  /\ UNCHANGED hasEntity

Next ==
  \/ \E p \in MainPlayers : ~hasEntity[p] /\ JoinedWorld(p, MaxObjs)
  \/ \E p \in MainPlayers : hasEntity[p] /\ LeftWorld(p)
  \/ \E p \in MainPlayers : hasEntity[p] /\ Restart(p)
  \/ Tick([p \in Players |-> MaxInRange])
  \/ \E i \in 1..MaxPending : FireStart(i, MaxOrders, NumExtraCodes, ITEMS_PER_ORDER)
  \/ \E i \in 1..MaxPending : FireExpiry(i)

Spec == Init /\ [][Next]_vars

\* One player with one item in reach per tick and batches placed unshuffled.
\* The host runs every setTimeout callback that stays pending: a delayed
\* startNewOrder is eventually called.
FairStart ==
  \E i \in 1..MaxPending : FireStart(i, FairOrders, NumExtraCodes, FairSwaps)

NextFair ==
  \/ \E p \in MainPlayers : ~hasEntity[p] /\ JoinedWorld(p, MaxObjs)
  \/ \E p \in MainPlayers : hasEntity[p] /\ LeftWorld(p)
  \/ \E p \in MainPlayers : hasEntity[p] /\ Restart(p)
  \/ Tick([p \in Players |-> FairInRange])
  \/ FairStart
  \/ \E i \in 1..MaxPending : FireExpiry(i)

\* ENABLED <<FairStart>>_vars: a delayed startNewOrder is due (every run of
\* startNewOrder changes orderCount, and it adds at most the expiry callback
\* in place of the callback that fired)
StartCanRun ==
  \E i \in 1..Len(pending) :
    /\ pending[i].kind = "start" /\ CanFire(pending, i)
    /\ objs[pending[i].obj].orderCount < FairOrders

\* WF_vars(FairStart), written out with its enabling condition
SpecFair ==
  /\ Init /\ [][NextFair]_vars
  /\ ([]<>~StartCanRun \/ []<><<FairStart>>_vars)

\* The join / leave / restart / timer plumbing when the host also delivers
\* JOINED_WORLD for a player who is already in the world, and lets a player
\* rejoin while callbacks of the removed session are still pending.  The
\* players stay out of reach of every item, so no tick collects anything.
NextRejoin ==
  \/ \E p \in MainPlayers : JoinedWorld(p, RejoinObjs)
  \/ \E p \in MainPlayers : hasEntity[p] /\ LeftWorld(p)
  \/ \E p \in MainPlayers : hasEntity[p] /\ Restart(p)
  \/ \E i \in 1..MaxPending : FireStart(i, RejoinOrders, NumExtraCodes, ITEMS_PER_ORDER)
  \/ \E i \in 1..MaxPending : FireExpiry(i)

SpecRejoin == Init /\ [][NextRejoin]_vars

\* A player who leaves and joins again while callbacks of the removed session
\* are still pending; JOINED_WORLD only for a player who is not in the world.
NextLeave ==
  \/ \E p \in MainPlayers : ~hasEntity[p] /\ JoinedWorld(p, RejoinObjs)
  \/ \E p \in MainPlayers : hasEntity[p] /\ LeftWorld(p)
  \/ \E p \in MainPlayers : hasEntity[p] /\ Restart(p)
  \/ \E i \in 1..MaxPending : FireStart(i, RejoinOrders, NumExtraCodes, ITEMS_PER_ORDER)
  \/ \E i \in 1..MaxPending : FireExpiry(i)

SpecLeave == Init /\ [][NextLeave]_vars

\* Two players in the world at the same time, each with a session.  The
\* players of MainPlayers walk over items and use /restart; the other player
\* joins, leaves and lets orders start and expire.
TwoReach == [p \in Players |-> IF p \in MainPlayers THEN TwoInRange ELSE OtherInRange]

NextTwo ==
  \/ \E p \in Players : ~hasEntity[p] /\ JoinedWorld(p, TwoObjs)
  \/ \E p \in Players : hasEntity[p] /\ LeftWorld(p)
  \/ \E p \in MainPlayers : hasEntity[p] /\ Restart(p)
  \/ Tick(TwoReach)
  \/ \E i \in 1..MaxPending : FireStart(i, TwoOrders, NumExtraCodes, TwoSwaps)
  \/ \E i \in 1..MaxPending : FireExpiry(i)

SpecTwo == Init /\ [][NextTwo]_vars

\* startNewOrder as a function of its random draws, the extra codes drawn
\* from the whole catalog: it runs on a session that has just joined and on a
\* session that has just completed the tutorial order without a mistake.
InitBatch ==
  \E done \in BOOLEAN :
    LET os0 == [[o \in ObjIds |-> NoState] EXCEPT ![1] = initGameState("p1")]
        c1 == startNewOrder(Ctx(os0, 1, <<>>), 1, TRUE, 2,
                            [i \in 1..ITEMS_PER_ORDER |-> 1],
                            [i \in 2..ITEMS_PER_ORDER |-> i])
        b == c1.st.worldItems[1]
        c2 == processItemCollection(c1, 1, b)
        f == c2.st.worldItems[1]
        c3 == processItemCollection(c2, 1, f)
    IN /\ objs = IF done THEN [os0 EXCEPT ![1] = c3.st] ELSE os0
       /\ pending = IF done THEN c3.q ELSE <<StartCb(1, JOIN_START_DELAY)>>
       /\ playerGameStates = <<[id |-> "p1", obj |-> 1]>>
       /\ hasEntity = [p \in Players |-> p = "p1"]
       /\ leaked = 0
       /\ CollectorInit

NextBatch == \E i \in 1..MaxPending : FireStart(i, MaxOrders, Len(ItemCodes), ITEMS_PER_ORDER)

SpecBatch == InitBatch /\ [][NextBatch]_vars

\* ------------------------------------------------------ claim vocabulary
Alloc == {o \in ObjIds : objs[o].alloc}

ExpiriesOf(o) ==
  {i \in 1..Len(pending) : pending[i].kind = "expiry" /\ pending[i].obj = o}

InProgress(st) == ~st.isGameOver /\ st.orderProgress < Len(st.currentOrder)

Required(st) == st.currentOrder[st.orderProgress + 1]

Collected(o, i) ==
  processItemCollection(Ctx(objs, o, pending), o, objs[o].worldItems[i]).st

\* C1: in every reachable state of every session object,
\* 0 <= orderProgress <= length(currentOrder).
C1_ProgressInRange ==
  \A o \in ObjIds :
    /\ 0 <= objs[o].orderProgress
    /\ objs[o].orderProgress <= Len(objs[o].currentOrder)

\* an order was fulfilled (progress at its upper limit) after a life was lost
C1_Witness ==
  \E o \in Alloc :
    /\ Len(objs[o].currentOrder) > 0
    /\ objs[o].orderProgress = Len(objs[o].currentOrder)
    /\ objs[o].lives < INITIAL_LIVES

\* C2: a session object has at most one order-expiry timer pending, and the
\* pending one is the timer armed by its latest startNewOrder (the handle in
\* orderTimer): a timer of an earlier order is never left to fire.  A
\* fulfilled order has no timer pending.
C2_OneTimerPerSession ==
  \A o \in ObjIds :
    /\ Cardinality(ExpiriesOf(o)) <= 1
    /\ \A i \in ExpiriesOf(o) : pending[i].handle = objs[o].orderTimer
    /\ (Len(objs[o].currentOrder) > 0
          /\ objs[o].orderProgress = Len(objs[o].currentOrder))
         => ExpiriesOf(o) = {}

\* a second order was started while the first, untouched, still had its
\* timer pending, and exactly one timer is pending now
C2_Witness ==
  \E o \in Alloc :
    /\ objs[o].orderCount = 2
    /\ objs[o].score = 0
    /\ objs[o].lives = INITIAL_LIVES
    /\ Cardinality(ExpiriesOf(o)) = 1

C4_GameOverFrozen ==
  [][\A o \in ObjIds :
       (objs[o].alloc /\ objs[o].isGameOver /\ objs'[o].alloc /\ objs'[o].isGameOver)
         => /\ objs'[o].score = objs[o].score
            /\ objs'[o].currentOrder = objs[o].currentOrder
            /\ objs'[o].orderProgress = objs[o].orderProgress
            /\ objs'[o].worldItems = objs[o].worldItems
            /\ ExpiriesOf(o)' = {}]_vars

\* C5: collecting a live item with the required code, at progress
\* k < length(currentOrder) and not game over, gives progress k+1, raises
\* score by SCORE_PER_ITEM, plus SCORE_PER_ORDER only when k+1 is the length,
\* and leaves lives unchanged.
C5_CorrectCollection ==
  \A o \in Alloc :
    InProgress(objs[o]) =>
      \A i \in 1..Len(objs[o].worldItems) :
        objs[o].worldItems[i].code = Required(objs[o]) =>
          LET st == objs[o]
              r == Collected(o, i)
              k == st.orderProgress
          IN /\ r.orderProgress = k + 1
             /\ r.score = st.score + SCORE_PER_ITEM
                             + (IF k + 1 = Len(st.currentOrder)
                                  THEN SCORE_PER_ORDER ELSE 0)
             /\ r.lives = st.lives

\* one item was collected and the item that completes the order is live
C5_Witness ==
  \E o \in Alloc :
    /\ InProgress(objs[o])
    /\ objs[o].orderProgress >= 1
    /\ objs[o].orderProgress + 1 = Len(objs[o].currentOrder)
    /\ objs[o].score >= SCORE_PER_ITEM
    /\ \E i \in 1..Len(objs[o].worldItems) :
         objs[o].worldItems[i].code = Required(objs[o])

C8_NoStaleStart ==
  [][\A o \in ObjIds :
       (objs[o].alloc /\ objs'[o].alloc
          /\ objs'[o].orderCount = objs[o].orderCount + 1)
         => /\ ~objs[o].isGameOver
            /\ objs[o].orderProgress = Len(objs[o].currentOrder)]_vars

\* C9: the step that removes a player's Map entry leaves no expiry timer of
\* that session pending and no item of it spawned.
C9_LeaveDestroysSession ==
  [][\A p \in Players :
       LET o == getGameState(playerGameStates, p)
       IN (o # 0 /\ getGameState(playerGameStates', p) = 0)
            => /\ ExpiriesOf(o)' = {}
               /\ objs'[o].worldItems = <<>>
               /\ leaked' = leaked]_vars

\* C10: as long as a player keeps a Map entry (no leave in between), the
\* entry keeps naming the same session object.
C10_JoinReusesSession ==
  [][\A p \in Players :
       LET o == getGameState(playerGameStates, p)
       IN (o # 0 /\ getGameState(playerGameStates', p) # 0)
            => getGameState(playerGameStates', p) = o]_vars

StartsOf(o, d) ==
  {i \in 1..Len(pending) :
     pending[i].kind = "start" /\ pending[i].obj = o /\ pending[i].delay = d}

\* every outcome of startNewOrder for object o on the current state, the
\* player entity being in the world
StartOutcomes(o) ==
  {startNewOrder(Ctx(objs, o, pending), o, TRUE, r, ex, js) :
     r \in 2..Len(ORDERS),
     ex \in [1..ITEMS_PER_ORDER -> 1..NumExtraCodes],
     js \in ShuffleDraws(ITEMS_PER_ORDER)}

\* C11: /restart keeps the player's session object and resets it in place to
\* score 0, lives 3, empty currentOrder, orderProgress 0, orderCount 0 and not
\* game over, leaves no expiry timer of it pending and schedules a
\* startNewOrder; the startNewOrder that runs on the reset object selects the
\* tutorial template.  From any state, game over included.
C11_RestartResets ==
  /\ [][\A p \in MainPlayers :
          (hasEntity[p] /\ Restart(p)) =>
            \E o \in ObjIds :
               /\ getGameState(playerGameStates', p) = o
               /\ getGameState(playerGameStates, p) \in {0, o}
               /\ objs'[o].score = 0
               /\ objs'[o].lives = INITIAL_LIVES
               /\ objs'[o].currentOrder = <<>>
               /\ objs'[o].orderProgress = 0
               /\ objs'[o].orderCount = 0
               /\ ~objs'[o].isGameOver
               /\ ExpiriesOf(o)' = {}
               /\ StartsOf(o, RESTART_DELAY)' # {}]_vars
  /\ [](\A o \in Alloc :
          (StartsOf(o, RESTART_DELAY) # {} /\ objs[o].orderCount = 0) =>
            \A c \in StartOutcomes(o) :
              /\ c.st.orderCount = 1
              /\ c.st.currentOrder = ORDERS[1]
              /\ c.st.orderProgress = 0)

\* a session that had an order running was restarted and waits for its start
C11_Witness ==
  \E o \in Alloc :
    /\ objs[o].orderCount = 0
    /\ objs[o].orderTimer # 0
    /\ objs[o].lives = INITIAL_LIVES
    /\ ExpiriesOf(o) = {}
    /\ StartsOf(o, RESTART_DELAY) # {}

Count(msgs, kind) == Cardinality({i \in 1..Len(msgs) : msgs[i].kind = kind})

Starts(q) == {i \in 1..Len(q) : q[i].kind = "start"}

\* the first live item with the given code, 0 when there is none
FirstWithCode(items, code) ==
  IF \E i \in 1..Len(items) : items[i].code = code
    THEN items[CHOOSE i \in 1..Len(items) :
                 /\ items[i].code = code
                 /\ \A k \in 1..(i - 1) : items[k].code # code].id
    ELSE 0

\* n ticks, each with exactly the next required item inside the collection
\* radius; the messages and callbacks of the ticks accumulate in the context
RECURSIVE CollectRequired(_, _, _)
CollectRequired(c, o, n) ==
  IF n = 0 \/ ~InProgress(c.st) THEN c
  ELSE LET id == FirstWithCode(c.st.worldItems, Required(c.st))
       IN IF id = 0 THEN c
          ELSE CollectRequired(tickSession(c, o, TRUE, FALSE, {id}, {}), o, n - 1)

\* an order right after startNewOrder: nothing collected, every item live
FreshOrder(o) ==
  /\ InProgress(objs[o])
  /\ objs[o].orderProgress = 0
  /\ Len(objs[o].worldItems) = ITEMS_PER_ORDER

\* C12: from an order as startNewOrder leaves it, collecting the required
\* codes in sequence and touching no other item brings orderProgress to
\* length(currentOrder), sends exactly one order-complete message and
\* schedules exactly one delayed startNewOrder.
C12_CollectInSequence ==
  \A o \in Alloc :
    FreshOrder(o) =>
      LET c == CollectRequired(Ctx(objs, o, pending), o, Len(objs[o].currentOrder))
      IN /\ c.st.orderProgress = Len(c.st.currentOrder)
         /\ Count(c.msgs, "complete") = 1
         /\ Cardinality(Starts(c.q)) = Cardinality(Starts(pending)) + 1
         /\ c.q[Len(c.q)] = StartCb(o, NEXT_ORDER_DELAY)

\* a non-tutorial order was collected in sequence without a mistake and its
\* follow-up start is pending
C12_Witness ==
  \E o \in Alloc :
    /\ objs[o].orderCount = 2
    /\ objs[o].orderProgress = Len(objs[o].currentOrder)
    /\ objs[o].lives = INITIAL_LIVES
    /\ objs[o].score >= 2 * SCORE_PER_ORDER
    /\ StartsOf(o, NEXT_ORDER_DELAY) # {}

\* The new-order notification is the block of four messages startNewOrder
\* sends: the order line and three help lines.  Notifications(msgs) is the
\* sequence of notifications, the help lines left out.
HelpLines == {"spawned", "how-to", "colors"}

Notifications(msgs) ==
  [i \in 1..Len(SelectSeq(msgs, LAMBDA m : m.kind \notin HelpLines)) |->
     LET m == SelectSeq(msgs, LAMBDA x : x.kind \notin HelpLines)[i]
     IN <<m.kind, m.code>>]

C14_LastLife ==
  /\ \A o \in Alloc :
       (InProgress(objs[o]) /\ objs[o].lives = 1) =>
         LET over(c) == /\ c.st.isGameOver
                        /\ Count(c.msgs, "game-over") = 1
                        /\ \A i \in 1..Len(c.q) :
                             ~(c.q[i].kind = "expiry" /\ c.q[i].obj = o)
                        /\ c.st.worldItems = <<>>
                        /\ c.sp = {}
         IN /\ over(orderTimerCallback(
                      Ctx(objs, o, clearTimeout(pending, objs[o].orderTimer))))
            /\ \A i \in 1..Len(objs[o].worldItems) :
                 objs[o].worldItems[i].code # Required(objs[o]) =>
                   over(tickSession(Ctx(objs, o, pending), o, TRUE, FALSE,
                                    {objs[o].worldItems[i].id}, {}))
  /\ \A o \in Alloc :
       objs[o].isGameOver =>
         /\ ExpiriesOf(o) = {}
         /\ objs[o].worldItems = <<>>

LaterOrders == {ORDERS[r] : r \in 2..Len(ORDERS)}

\* C15: a startNewOrder that gives the session an order gives the tutorial
\* template when it is the first since creation or /restart (orderCount
\* becomes 1), and otherwise one of the templates after the tutorial, never
\* the tutorial.
C15_TutorialFirst ==
  [][\A o \in ObjIds :
       (objs[o].alloc /\ objs'[o].alloc
          /\ objs'[o].orderCount = objs[o].orderCount + 1
          /\ hasEntity[objs[o].player])
         => IF objs'[o].orderCount = 1
              THEN objs'[o].currentOrder = ORDERS[1]
              ELSE /\ objs'[o].currentOrder \in LaterOrders
                   /\ objs'[o].currentOrder # ORDERS[1]]_vars

\* a second order is running
C15_Witness ==
  \E o \in Alloc :
    /\ objs[o].orderCount = 2
    /\ objs[o].currentOrder \in LaterOrders
    /\ InProgress(objs[o])
    /\ ExpiriesOf(o) # {}

CountCode(codes, code) == Cardinality({i \in 1..Len(codes) : codes[i] = code})

SameBag(s, t) ==
  /\ Len(s) = Len(t)
  /\ \A code \in ITEM_TYPES : CountCode(s, code) = CountCode(t, code)

Codes(items) == [i \in 1..Len(items) |-> items[i].code]

\* C16: startNewOrder builds a batch of exactly ITEMS_PER_ORDER codes, the
\* codes of currentOrder followed by ITEMS_PER_ORDER - length(currentOrder)
\* codes of the catalog; the shuffled batch has the same codes with the same
\* multiplicities; worldItems holds one item per code of the shuffled batch,
\* in its order; and the order can be collected in sequence from these items.
C16_BatchAndShuffle ==
  \A o \in Alloc :
    (hasEntity[objs[o].player] /\ \E i \in Starts(pending) : pending[i].obj = o) =>
      \A r \in 2..Len(ORDERS) :
        LET order == SelectOrder(objs[o].orderCount + 1, r)
        IN \A ex \in [1..NumExtra(order) -> 1..Len(ItemCodes)] :
             LET batch == itemsToSpawn(order, ex)
             IN /\ Len(batch) = ITEMS_PER_ORDER
                /\ SubSeq(batch, 1, Len(order)) = order
                /\ \A k \in (Len(order) + 1)..Len(batch) : batch[k] \in ITEM_TYPES
                /\ \A js \in ShuffleDraws(Len(batch)) :
                     LET c == startNewOrder(Ctx(objs, o, pending), o, TRUE, r, ex, js)
                     IN /\ SameBag(shuffle(batch, js, Len(batch)), batch)
                        /\ Codes(c.st.worldItems) = shuffle(batch, js, Len(batch))
                        /\ c.st.currentOrder = order
                        /\ c.st.isGameOver
                             \/ CollectRequired(c, o, Len(order)).st.orderProgress
                                  = Len(order)

\* an order whose extra items are not all of one code and whose items are
\* not in batch order
C16_Witness ==
  \E o \in Alloc :
    /\ Len(objs[o].worldItems) = ITEMS_PER_ORDER
    /\ objs[o].orderProgress = 0
    /\ ExpiriesOf(o) # {}
    /\ SubSeq(Codes(objs[o].worldItems), 1, Len(objs[o].currentOrder))
         # objs[o].currentOrder
    /\ \E i, k \in 1..ITEMS_PER_ORDER :
         /\ objs[o].worldItems[i].code \notin
              {objs[o].currentOrder[n] : n \in 1..Len(objs[o].currentOrder)}
         /\ objs[o].worldItems[k].code \notin
              {objs[o].currentOrder[n] : n \in 1..Len(objs[o].currentOrder)}
         /\ objs[o].worldItems[i].code # objs[o].worldItems[k].code

\* the codes still to collect, from the current progress to the end
Remaining(st) == SubSeq(st.currentOrder, st.orderProgress + 1, Len(st.currentOrder))

\* C17: whenever a session of the Map is not game over and its order is
\* incomplete, the live items hold every code still to collect, as many times
\* as the rest of the order needs it; so after a life loss has reset
\* orderProgress to 0 the whole order is still collectable.
C17_StillCompletable ==
  \A p \in Players :
    LET o == getGameState(playerGameStates, p)
    IN (o # 0 /\ InProgress(objs[o])) =>
         \A code \in ITEM_TYPES :
           CountCode(Remaining(objs[o]), code)
             <= CountCode(Codes(objs[o].worldItems), code)

\* C18: whenever a session of the Map is not game over and has an incomplete
\* order, exactly one expiry timer is pending for it, also after a timeout or
\* a wrong item has cost a life and reset the order.
C18_OrderAlwaysTimed ==
  \A p \in Players :
    LET o == getGameState(playerGameStates, p)
    IN (o # 0 /\ InProgress(objs[o])) => Cardinality(ExpiriesOf(o)) = 1

\* C19: a tick that finds the player of a session below MIN_SAFE_Y moves the
\* player entity to SAFE_SPAWN_Y, whatever the order state, also while the
\* session is game over.
C19_TeleportAlways ==
  \A p \in Players :
    LET o == getGameState(playerGameStates, p)
    IN (o # 0 /\ hasEntity[p]) =>
         \A cs \in SUBSET Ids(objs[o].worldItems) :
           tickSession(Ctx(objs, o, pending), o, hasEntity[p], TRUE, cs, {}).tp

\* the timers and delayed starts of object x in queue q
CallbacksOf(q, x) == SelectSeq(q, LAMBDA e : e.obj = x)

Untouched(x) ==
  /\ objs'[x] = objs[x]
  /\ CallbacksOf(pending', x) = CallbacksOf(pending, x)

\* C20: an event of one session (a delayed start, a timer expiry, a join, a
\* leave, a /restart, and what they entail: life loss, game over) changes no
\* field, live item, timer or delayed start of any other session; and in a
\* tick, which serves every session, each session ends as if it had been
\* ticked alone.
C20_SessionsIsolated ==
  /\ [][/\ \A i \in 1..MaxPending :
            (FireStart(i, TwoOrders, NumExtraCodes, TwoSwaps) \/ FireExpiry(i)) =>
              \A x \in ObjIds \ {pending[i].obj} : Untouched(x)
        /\ \A p \in Players :
             (JoinedWorld(p, TwoObjs) \/ LeftWorld(p) \/ Restart(p)) =>
               \A x \in ObjIds :
                 (\E u \in Players \ {p} : getGameState(playerGameStates, u) = x)
                   => Untouched(x)]_vars
  /\ [](\A inp \in AllTickInputs(Players, [u \in Players |-> TwoInRange]) :
          LET r == tickAll(objs, pending, playerGameStates, 1, inp, hasEntity)
          IN \A k \in 1..Len(playerGameStates) :
               LET p == playerGameStates[k].id
                   o == playerGameStates[k].obj
                   a == tickSession(Ctx(objs, o, pending), o, hasEntity[p],
                                    inp[p].low, inp[p].collect, inp[p].band)
               IN /\ r.os[o] = a.st
                  /\ CallbacksOf(r.q, o) = CallbacksOf(a.q, o))

\* one session is game over while the other, untouched, has its order and
\* its timer running
C20_Witness ==
  \E o1, o2 \in Alloc :
    /\ o1 # o2
    /\ objs[o1].player # objs[o2].player
    /\ objs[o1].isGameOver
    /\ InProgress(objs[o2])
    /\ objs[o2].lives = INITIAL_LIVES
    /\ Len(objs[o2].worldItems) = ITEMS_PER_ORDER
    /\ ExpiriesOf(o2) # {}

\* C21: whichever audio playbacks throw, a life loss (by timer expiry or by
\* a wrong item) takes one life and then resets orderProgress or, at the last
\* life, ends the game with the timer cancelled, the items cleared and the
\* game-over message sent; and a correct collection still counts.
C21_AudioFailureAbsorbed ==
  \A o \in Alloc :
    InProgress(objs[o]) =>
      \A fail \in SUBSET Sounds :
        LET st == objs[o]
            lost(c) ==
              /\ c.st.lives = st.lives - 1
              /\ IF c.st.lives > 0
                   THEN c.st.orderProgress = 0 /\ ~c.st.isGameOver
                   ELSE /\ c.st.isGameOver
                        /\ \A i \in 1..Len(c.q) :
                             ~(c.q[i].kind = "expiry" /\ c.q[i].obj = o)
                        /\ c.st.worldItems = <<>>
                        /\ Count(c.msgs, "game-over") = 1
        IN /\ lost(orderTimerCallback(
                     CtxFail(objs, o, clearTimeout(pending, st.orderTimer), fail)))
           /\ \A i \in 1..Len(st.worldItems) :
                LET c == tickSession(CtxFail(objs, o, pending, fail), o, TRUE,
                                     FALSE, {st.worldItems[i].id}, {})
                IN IF st.worldItems[i].code = Required(st)
                     THEN /\ c.st.orderProgress = st.orderProgress + 1
                          /\ c.st.score >= st.score + SCORE_PER_ITEM
                     ELSE lost(c)

InMap(o) == \E k \in 1..Len(playerGameStates) : playerGameStates[k].obj = o

\* the tick inputs of SpecTwo with every player able to reach an item
BothReach == AllTickInputs(Players, [u \in Players |-> TwoInRange])

\* C22: a tick skips a session whose player entity is missing, leaving the
\* session as it was, and serves every other session as usual; startNewOrder
\* run while the player entity is missing selects no order, spawns no item,
\* arms no timer and sends nothing.
C22_MissingEntity ==
  /\ \A u \in Players :
       getGameState(playerGameStates, u) # 0 =>
         \A inp \in BothReach :
           LET gone == [hasEntity EXCEPT ![u] = FALSE]
               r == tickAll(objs, pending, playerGameStates, 1, inp, gone)
           IN \A k \in 1..Len(playerGameStates) :
                LET p == playerGameStates[k].id
                    o == playerGameStates[k].obj
                    a == tickSession(Ctx(objs, o, pending), o, hasEntity[p],
                                     inp[p].low, inp[p].collect, inp[p].band)
                IN IF p = u
                     THEN /\ r.os[o] = objs[o]
                          /\ CallbacksOf(r.q, o) = CallbacksOf(pending, o)
                     ELSE /\ r.os[o] = a.st
                          /\ CallbacksOf(r.q, o) = CallbacksOf(a.q, o)
  /\ \A o \in Alloc :
       LET c == startNewOrder(Ctx(objs, o, pending), o, FALSE, 2, <<>>, <<>>)
       IN /\ c.st.currentOrder = objs[o].currentOrder
          /\ c.st.worldItems = <<>>
          /\ c.sp = {}
          /\ \A i \in 1..Len(c.q) : ~(c.q[i].kind = "expiry" /\ c.q[i].obj = o)
          /\ c.msgs = <<>>

\* the player left before a delayed start ran: the start found no player
\* entity and the session object, still awaiting another start, has no order
C22_Witness ==
  \E o \in Alloc :
    /\ ~InMap(o)
    /\ ~hasEntity[objs[o].player]
    /\ objs[o].orderCount = 1
    /\ objs[o].currentOrder = <<>>
    /\ objs[o].worldItems = <<>>
    /\ ExpiriesOf(o) = {}
\* ------------------------------------------------ claim C23 (unknown code)
\* a code that is not a key of ITEM_TYPES
UnknownCode == "X"

\* order templates that ask for the unknown code (the extra codes are drawn
\* from the keys of ITEM_TYPES, so only a template can ask for it)
UnknownOrders ==
  {<<"B", UnknownCode>>, <<UnknownCode, "F">>, <<"N", UnknownCode, "I">>}

RECURSIVE KnownOnly(_)
KnownOnly(codes) ==
  IF codes = <<>> THEN <<>>
  ELSE (IF Head(codes) \in ITEM_TYPES THEN <<Head(codes)>> ELSE <<>>)
         \o KnownOnly(Tail(codes))

Removals(o) ==
  {tickSession(Ctx(objs, o, pending), o, TRUE, FALSE, cs, {}) :
     cs \in {x \in SUBSET Ids(objs[o].worldItems) : Cardinality(x) <= MaxInRange}}
  \cup {orderTimerCallback(Ctx(objs, o, pending)),
        clearPreviousOrder(Ctx(objs, o, pending))}

Distinct(items) ==
  \A i, j \in 1..Len(items) : items[i].id = items[j].id => i = j

FiredQueues(o) ==
  IF ExpiriesOf(o) = {} THEN {pending}
  ELSE {RemoveAt(pending, i) : i \in ExpiriesOf(o)}

ExpiriesIn(q, o) == {i \in 1..Len(q) : q[i].kind = "expiry" /\ q[i].obj = o}

\* C25: the expiry callback of an order in progress takes exactly one life and
\* reports it with the time-out reason; run after the order was completed or
\* after game over it changes nothing; and it arms no timer, so that one armed
\* timer takes at most one life.
C25_ExpiryTakesOneLife ==
  \A o \in Alloc :
    \A q \in FiredQueues(o) :
      LET c == orderTimerCallback(Ctx(objs, o, q))
      IN /\ InProgress(objs[o]) =>
              /\ c.st.lives = objs[o].lives - 1
              /\ Count(c.msgs, "mistake") = 1
              /\ \A k \in 1..Len(c.msgs) :
                   c.msgs[k].kind = "mistake" => c.msgs[k].code = "time"
         /\ ~InProgress(objs[o]) =>
              c.st = objs[o] /\ c.q = q /\ c.msgs = <<>>
         /\ Cardinality(ExpiriesIn(c.q, o)) <= Cardinality(ExpiriesIn(q, o))

\* the timer of an untouched order has fired: one life is gone, the order is
\* still in progress and no timer is pending
C25_Witness ==
  \E o \in Alloc :
    /\ InMap(o) /\ InProgress(objs[o]) /\ ExpiriesOf(o) = {}
    /\ objs[o].lives = INITIAL_LIVES - 1
    /\ objs[o].score = 0
    /\ Len(objs[o].worldItems) = ITEMS_PER_ORDER
\* ------------------------------------------ claim C26 (after completion)
\* the order of the session has been completed and no startNewOrder or
\* /restart has replaced it yet
Fulfilled(st) ==
  st.currentOrder # <<>> /\ st.orderProgress = Len(st.currentOrder)

SameGame(o) ==
  /\ objs'[o].score = objs[o].score
  /\ objs'[o].lives = objs[o].lives
  /\ objs'[o].orderProgress = objs[o].orderProgress

NoLiveItemsNoTimer ==
  \A o \in Alloc :
    Fulfilled(objs[o]) => objs[o].worldItems = <<>> /\ ExpiriesOf(o) = {}

\* C26 as stated: from the completing collection until the next
\* startNewOrder runs (orderCount + 1) the session has no live item and no
\* pending expiry timer, and no step changes score, lives or orderProgress.
C26_QuietUntilNextOrder ==
  /\ []NoLiveItemsNoTimer
  /\ [][\A o \in ObjIds :
          (/\ objs[o].alloc /\ objs'[o].alloc
           /\ Fulfilled(objs[o])
           /\ objs'[o].orderCount # objs[o].orderCount + 1)
            => SameGame(o)]_vars

\* C26 amended: the same, until the next startNewOrder or /restart of the
\* session (either changes orderCount).
C26_QuietUntilStartOrRestart ==
  /\ []NoLiveItemsNoTimer
  /\ [][\A o \in ObjIds :
          (/\ objs[o].alloc /\ objs'[o].alloc
           /\ Fulfilled(objs[o])
           /\ objs'[o].orderCount = objs[o].orderCount)
            => SameGame(o)]_vars

\* the second order has been completed and its successor has not started
C26_Witness ==
  \E o \in Alloc :
    /\ InMap(o) /\ hasEntity[objs[o].player]
    /\ Fulfilled(objs[o]) /\ ~objs[o].isGameOver
    /\ objs[o].orderCount = 2
    /\ objs[o].worldItems = <<>> /\ ExpiriesOf(o) = {}
    /\ \E i \in 1..Len(pending) : pending[i] = StartCb(o, NEXT_ORDER_DELAY)
\* --------------------------------------------- claim C27 (life loss only)
\* the session after a life loss that leaves a life: one life less and the
\* progress of the order back at 0
OneLifeLess(st) == [st EXCEPT !.lives = @ - 1, !.orderProgress = 0]

WrongItems(st) ==
  {i \in 1..Len(st.worldItems) : st.worldItems[i].code # Required(st)}

\* C27: a life loss that leaves at least one life changes lives and
\* orderProgress only: currentOrder, orderCount, score, the live items and the
\* pending timers are as before, whether the loss comes from loseLife called
\* directly, from a wrong collection or from the expiry callback.
C27_LifeLossOnly ==
  \A o \in Alloc :
    (~objs[o].isGameOver /\ objs[o].lives > 1) =>
      LET c0 == Ctx(objs, o, pending)
          same(c) == /\ c.st = OneLifeLess(objs[o])
                     /\ c.q = pending
                     /\ c.sp = Ids(objs[o].worldItems)
      IN /\ \A reason \in ITEM_TYPES \cup {"time"} : same(loseLife(c0, reason))
         /\ InProgress(objs[o]) =>
              /\ same(orderTimerCallback(c0))
              /\ \A i \in WrongItems(objs[o]) :
                   same(processItemCollection(c0, o, objs[o].worldItems[i]))

\* a wrong item was collected after the first correct one: the score and the
\* four remaining items are kept, the timer is still pending
C27_Witness ==
  \E o \in Alloc :
    /\ InMap(o) /\ ~objs[o].isGameOver
    /\ objs[o].lives = INITIAL_LIVES - 1
    /\ objs[o].orderProgress = 0
    /\ objs[o].score = SCORE_PER_ITEM
    /\ Len(objs[o].worldItems) = ITEMS_PER_ORDER - 1
    /\ ExpiriesOf(o) # {}
\* ------------------------------------------- claim C28 (same code twice)
\* the live items of the session that carry the required code while another
\* live item carries it too
Duplicated(st) ==
  {i \in 1..Len(st.worldItems) :
     /\ st.worldItems[i].code = Required(st)
     /\ \E j \in 1..Len(st.worldItems) :
          j # i /\ st.worldItems[j].code = st.worldItems[i].code}

\* C28: collecting one of several live items with the required code removes
\* that one instance from worldItems and raises orderProgress by one; the
\* other instances stay in worldItems, spawned, unless this collection
\* completes the order, which clears every item.
C28_OneInstanceRemoved ==
  \A o \in Alloc :
    InProgress(objs[o]) =>
      \A i \in Duplicated(objs[o]) :
        LET st == objs[o]
            c == processItemCollection(Ctx(objs, o, pending), o, st.worldItems[i])
        IN /\ c.st.orderProgress = st.orderProgress + 1
           /\ c.st.score >= st.score + SCORE_PER_ITEM
           /\ c.sp = Ids(c.st.worldItems)
           /\ IF st.orderProgress + 1 < Len(st.currentOrder)
                THEN /\ c.st.worldItems = RemoveAt(st.worldItems, i)
                     /\ c.st.score = st.score + SCORE_PER_ITEM
                     /\ \E j \in 1..Len(c.st.worldItems) :
                          c.st.worldItems[j].code = st.worldItems[i].code
                ELSE c.st.worldItems = <<>>

\* the first item of the order was collected and another item with its code
\* is still live
C28_Witness ==
  \E o \in Alloc :
    /\ InMap(o) /\ InProgress(objs[o])
    /\ objs[o].orderProgress = 1
    /\ objs[o].score = SCORE_PER_ITEM
    /\ Len(objs[o].worldItems) = ITEMS_PER_ORDER - 1
    /\ \E j \in 1..Len(objs[o].worldItems) :
         objs[o].worldItems[j].code = objs[o].currentOrder[1]
\* ------------------------------------------- claim C29 (placement order)
\* the tick of session o with the items at i and j of worldItems exchanged
TickSwapped(o, i, j, cs) ==
  tickSession(Ctx([objs EXCEPT ![o].worldItems = Swap(@, i, j)], o, pending),
              o, TRUE, FALSE, cs, {})

\* C29: for the same live items and the same items in reach, a tick gives the
\* same score, lives, orderProgress and game-over status whatever the order
\* of the items in worldItems.
C29_PlacementOrderIrrelevant ==
  \A o \in Alloc :
    (InMap(o) /\ hasEntity[objs[o].player]) =>
      \A cs \in {x \in SUBSET Ids(objs[o].worldItems) : Cardinality(x) <= MaxInRange} :
        \A i, j \in 1..Len(objs[o].worldItems) :
          LET a == TickSwapped(o, i, i, cs).st
              b == TickSwapped(o, i, j, cs).st
          IN /\ a.score = b.score
             /\ a.lives = b.lives
             /\ a.orderProgress = b.orderProgress
             /\ a.isGameOver = b.isGameOver
\* ------------------------------------------------ claim C30 (nearby hint)
\* the next tick of session o after the handler that returned c, with the
\* items cs in collection reach and the items band in the nearby band
TickAfter(c, o, cs, band) ==
  tickSession(Ctx([objs EXCEPT ![o] = c.st], o, c.q), o, TRUE, FALSE, cs, band)

\* C30: an item that enters the nearby band gets one hint; while it stays in
\* the band the next tick sends no second hint for it; its notified flag is
\* cleared by the tick in which it is collected and by the tick that finds it
\* outside the band.  (The band, 3 to 8 blocks, overlaps the collection
\* radius of 5: near says whether the item is in collection reach as well.)
C30_NearbyHintOnce ==
  \A o \in Alloc :
    (InMap(o) /\ hasEntity[objs[o].player] /\ ~objs[o].isGameOver) =>
      \A a \in Ids(objs[o].worldItems) \ objs[o].nearbyItemsNotified :
        \A near \in BOOLEAN :
          LET cs == IF near THEN {a} ELSE {}
              t1 == TickAfter(Ctx(objs, o, pending), o, cs, {a})
              stay == TickAfter(t1, o, cs, {a})
              left == TickAfter(t1, o, {}, {})
          IN /\ Count(t1.msgs, "nearby") = 1
             /\ Count(stay.msgs, "nearby") = 0
             /\ a \notin left.st.nearbyItemsNotified
             /\ near => a \notin t1.st.nearbyItemsNotified
\* ---------------------------------------------- claim C31 (next order)
Connected(o) == objs[o].alloc /\ InMap(o) /\ hasEntity[objs[o].player]

StartPending(o) ==
  \E i \in 1..Len(pending) : pending[i].kind = "start" /\ pending[i].obj = o

\* the session as startNewOrder leaves it
Started(st, o) ==
  /\ st.currentOrder # <<>> /\ st.orderProgress = 0
  /\ Len(st.worldItems) = ITEMS_PER_ORDER
  /\ ExpiriesOf(o) # {}

\* after join and after /restart (orderCount 0) and after a completion a
\* delayed startNewOrder is pending
StartScheduled ==
  \A o \in Alloc :
    (InMap(o) /\ (objs[o].orderCount = 0 \/ Fulfilled(objs[o]))) => StartPending(o)

\* C31: for a connected player, after join, after /restart and after every
\* completion a startNewOrder is pending; while the player stays connected it
\* eventually runs (FairOrders caps the orders of one game), and a
\* startNewOrder that runs leaves the session with orderProgress 0, a batch
\* of ITEMS_PER_ORDER live items and a pending expiry timer.
C31_NextOrderArrives ==
  /\ []StartScheduled
  /\ [][\A o \in ObjIds :
          (Connected(o) /\ objs'[o].alloc
             /\ objs'[o].orderCount = objs[o].orderCount + 1)
            => Started(objs[o], o)']_vars
  /\ \A o \in ObjIds :
       (Connected(o) /\ StartPending(o) /\ objs[o].orderCount < FairOrders)
         ~> (~Connected(o) \/ Started(objs[o], o))

\* the order after the tutorial has arrived
C31_Witness ==
  \E o \in Alloc :
    /\ Connected(o) /\ Started(objs[o], o)
    /\ objs[o].orderCount = 2
    /\ objs[o].score = 2 * SCORE_PER_ITEM + SCORE_PER_ORDER
    /\ ~StartPending(o)

\* ------------------------------------------ claim C34 (one life per tick)
\* C34: one tick pass over worldItems takes at most one life from a session
\* and sends at most one mistake message, whatever items are in reach.
C34_OneLifePerTick ==
  \A o \in Alloc :
    (InMap(o) /\ hasEntity[objs[o].player]) =>
      \A cs \in {x \in SUBSET Ids(objs[o].worldItems) : Cardinality(x) <= MaxInRange} :
        LET c == tickSession(Ctx(objs, o, pending), o, TRUE, FALSE, cs, {})
        IN /\ c.st.lives >= objs[o].lives - 1
           /\ Count(c.msgs, "mistake") <= 1
\* ------------------------------------------------- claim C35 (the score)
\* the score a handler must leave: one SCORE_PER_ITEM for every correct
\* collection it reported and one SCORE_PER_ORDER for every order it completed
Earned(c) ==
  SCORE_PER_ITEM * Count(c.msgs, "collected")
    + SCORE_PER_ORDER * Count(c.msgs, "complete")

ScoreAccounted ==
  \A o \in Alloc :
    LET c0 == Ctx(objs, o, pending)
        paid(c) == c.st.score = objs[o].score + Earned(c)
    IN /\ \A cs \in {x \in SUBSET Ids(objs[o].worldItems) :
                       Cardinality(x) <= MaxInRange} :
            paid(tickSession(c0, o, TRUE, FALSE, cs, {}))
       /\ orderTimerCallback(c0).st.score = objs[o].score
       /\ \A reason \in ITEM_TYPES \cup {"time"} :
            loseLife(c0, reason).st.score = objs[o].score
       /\ endGame(c0).st.score = objs[o].score
       /\ clearPreviousOrder(c0).st.score = objs[o].score
       /\ objs[o].orderCount = 0 => objs[o].score = 0

\* C35: between two resets (creation or /restart, which set orderCount to 0)
\* the score never decreases; every handler adds SCORE_PER_ITEM per correct
\* collection and SCORE_PER_ORDER per completed order and nothing else, so
\* the score is the sum of both since the reset; life losses, timeouts and
\* game over leave it unchanged.
C35_ScoreIsEarned ==
  /\ []ScoreAccounted
  /\ [][\A o \in ObjIds :
          (objs[o].alloc /\ objs'[o].alloc
             /\ objs'[o].orderCount >= objs[o].orderCount)
            => objs'[o].score >= objs[o].score]_vars

\* the game ended after one correct collection: the score is kept
C35_Witness ==
  \E o \in Alloc :
    /\ InMap(o) /\ objs[o].isGameOver /\ objs[o].lives = 0
    /\ objs[o].score = SCORE_PER_ITEM
\* ------------------------------------------- claim C36 (after leaving)
\* C36: a session whose player has left (its object is no longer in the Map)
\* gets no items, no expiry timer and no life loss from a callback that was
\* still pending, also when the player has joined again in the meantime.
C36_RemovedSessionInert ==
  [][\A o \in ObjIds :
       (objs[o].alloc /\ ~InMap(o) /\ objs'[o].alloc)
         => /\ Len(objs'[o].worldItems) <= Len(objs[o].worldItems)
            /\ Cardinality(ExpiriesOf(o)') <= Cardinality(ExpiriesOf(o))
            /\ objs'[o].lives = objs[o].lives]_vars
\* ------------------------------------------------ claim C38 (the catalog)
WellFormed(order) ==
  /\ \A i \in 1..Len(order) : order[i] \in ITEM_TYPES
  /\ Len(order) >= 2 /\ Len(order) <= 4
  /\ Len(order) < ITEMS_PER_ORDER

\* C38: every template of ORDERS uses codes of ITEM_TYPES only and has 2 to 4
\* codes, fewer than ITEMS_PER_ORDER; so the order of every session is a
\* well-formed template and its batch holds at least one extra item.
C38_CatalogWellFormed ==
  /\ \A t \in 1..Len(ORDERS) : WellFormed(ORDERS[t])
  /\ \A o \in Alloc :
       objs[o].currentOrder # <<>> =>
         /\ \E t \in 1..Len(ORDERS) : objs[o].currentOrder = ORDERS[t]
         /\ WellFormed(objs[o].currentOrder)
         /\ NumExtra(objs[o].currentOrder) >= 1
         /\ Len(itemsToSpawn(objs[o].currentOrder,
                              [i \in 1..NumExtra(objs[o].currentOrder) |-> 1]))
              = ITEMS_PER_ORDER

\* the longest template has been started: four required items and one extra
C38_Witness ==
  \E o \in Alloc :
    /\ Len(objs[o].currentOrder) = 4
    /\ Len(objs[o].worldItems) = ITEMS_PER_ORDER
    /\ objs[o].orderProgress = 0

\* ======================================================================
\* Item Collector variant (src/unnamed/part_001)
\* ======================================================================

\* allCodes of generateNewOrder, in declaration order
allCodes == <<"B", "F", "D", "N", "I">>

\* the codes Math.random() draws in the explored runs
DrawnCodes == {allCodes[i] : i \in 1..CollectorCodes}

\* the orders generateNewOrder can draw: ORDER_LENGTH codes, repeats allowed
DrawnOrders == [1..ORDER_LENGTH -> DrawnCodes]

CollectorPlayers == MainPlayers

\* currentOrder.includes(code)
includes(order, code) == \E i \in 1..Len(order) : order[i] = code

\* an item entity of a state's list; inOrder is orderItems.has(item)
Item(code, inOrder) == [code |-> code, spawned |-> TRUE, inOrder |-> inOrder]

\* generateNewOrder(state), order being the codes drawn
generateNewOrder(st, order) ==
  [st EXCEPT !.currentOrder = order,
             !.orderProgress = 0,
             !.items = [i \in 1..Len(st.items) |->
                          [st.items[i] EXCEPT !.inOrder = includes(order, st.items[i].code)]]]

isSpawned(item) == item.spawned

\* the loop that splices despawned entries out of state.items and orderItems
cleanUpItems(st) == [st EXCEPT !.items = SelectSeq(@, isSpawned)]

\* tryCollectItem, the combo of a correct collection made at time t, with <= for <
comboAfterInclusive(st, t) ==
  IF t - st.lastCollectionTime <= COMBO_TIME_WINDOW THEN st.combo + 1 ELSE 1

\* tryCollectItem, the combo of a correct collection made at time t
comboAfter(st, t) ==
  IF t - st.lastCollectionTime < COMBO_TIME_WINDOW THEN st.combo + 1 ELSE 1

\* tryCollectItem, basePoints + comboBonus for the combo reached
pointsFor(combo) ==
  POINTS_PER_ITEM + (IF combo > 1 THEN (POINTS_PER_ITEM * (combo - 1)) \div 2 ELSE 0)

\* the result of tryCollectItem
Outcome(st, collected, msg) == [st |-> st, collected |-> collected, msg |-> msg]

\* tryCollectItem, the branch of the next required code; near indexes the cleaned list
collectNextItem(st, near, t, order) ==
  LET combo == comboAfter(st, t)
      done == st.orderProgress + 1 >= Len(st.currentOrder)
      total == pointsFor(combo) + (IF done THEN POINTS_PER_ORDER ELSE 0)
      s1 == [st EXCEPT !.orderProgress = @ + 1, !.combo = combo, !.score = @ + total]
      s2 == IF done THEN generateNewOrder(s1, order) ELSE s1
      s3 == [s2 EXCEPT !.lastCollectionTime = t,
                       !.items = [i \in 1..(Len(@) - 1) |->
                                    IF i < near THEN @[i] ELSE @[i + 1]]]
  IN Outcome(s3, TRUE, IF done THEN "order complete" ELSE "collected")

\* tryCollectItem, the two branches of another item, which also drop the combo
wrongItemDropsCombo(st, near) ==
  Outcome([st EXCEPT !.combo = 0], FALSE,
          IF st.items[near].inOrder THEN "wrong item" ELSE "not in order")

\* tryCollectItem, the two branches of another item
wrongItem(st, near) ==
  Outcome(st, FALSE, IF st.items[near].inOrder THEN "wrong item" ELSE "not in order")

\* tryCollectItem(world, state, playerPos) at time t; near is the index, in the
\* cleaned list, of the nearest item within COLLECTION_DISTANCE, 0 for none
tryCollectItem(st0, near, t, order) ==
  LET st == cleanUpItems(st0)
  IN IF near = 0 THEN Outcome(st, FALSE, "none")
     ELSE IF st.items[near].inOrder
             /\ st.items[near].code = st.currentOrder[st.orderProgress + 1]
          THEN collectNextItem(st, near, t, order)
          ELSE wrongItem(st, near)

\* PlayerEvent.JOINED_WORLD
CollectorJoined(p) ==
  /\ ~hasEntity[p]
  /\ spawnIntervals[p] < MaxIntervals
  /\ \E order \in DrawnOrders :
       playerStates' = [playerStates EXCEPT
                          ![p] = generateNewOrder([NoPlayerState EXCEPT !.present = TRUE], order)]
  /\ hasEntity' = [hasEntity EXCEPT ![p] = TRUE]
  /\ spawnIntervals' = [spawnIntervals EXCEPT ![p] = @ + 1]
  /\ UNCHANGED <<objs, playerGameStates, pending, leaked, now>>

\* PlayerEvent.LEFT_WORLD
CollectorLeft(p) ==
  /\ hasEntity[p]
  /\ playerStates' = [playerStates EXCEPT ![p] = NoPlayerState]
  /\ hasEntity' = [hasEntity EXCEPT ![p] = FALSE]
  /\ UNCHANGED <<objs, playerGameStates, pending, leaked, spawnIntervals, now>>

\* the /restart command
CollectorRestart(p) ==
  /\ playerStates[p].present
  /\ \E order \in DrawnOrders :
       playerStates' = [playerStates EXCEPT
                          ![p] = generateNewOrder([@ EXCEPT !.score = 0, !.combo = 0,
                                                            !.items = <<>>], order)]
  /\ UNCHANGED <<objs, playerGameStates, hasEntity, pending, leaked, spawnIntervals, now>>

\* one firing of a spawn interval created for player id p
SpawnIntervalFires(p) ==
  /\ spawnIntervals[p] > 0
  /\ IF ~playerStates[p].present
     THEN /\ spawnIntervals' = [spawnIntervals EXCEPT ![p] = @ - 1]
          /\ UNCHANGED playerStates
     ELSE /\ UNCHANGED spawnIntervals
          /\ IF hasEntity[p]
             THEN /\ Len(playerStates[p].items) < MaxItems
                  /\ \E code \in DrawnCodes :
                       playerStates' = [playerStates EXCEPT ![p].items =
                          Append(@, Item(code, includes(playerStates[p].currentOrder, code)))]
             ELSE UNCHANGED playerStates
  /\ UNCHANGED <<objs, playerGameStates, hasEntity, pending, leaked, now>>

\* the ITEM_LIFETIME timeout of the i-th item of p's list
ItemLifetimeEnds(p, i) ==
  /\ i \in 1..Len(playerStates[p].items)
  /\ playerStates[p].items[i].spawned
  /\ playerStates' = [playerStates EXCEPT ![p].items[i].spawned = FALSE]
  /\ UNCHANGED <<objs, playerGameStates, hasEntity, pending, leaked, spawnIntervals, now>>

\* WorldEvent.TICK
CollectorTick ==
  /\ playerStates' = [p \in Players |->
                        IF playerStates[p].present /\ hasEntity[p]
                        THEN cleanUpItems(playerStates[p]) ELSE playerStates[p]]
  /\ UNCHANGED <<objs, playerGameStates, hasEntity, pending, leaked, spawnIntervals, now>>

\* the E key or the /collect command of player p
Collect(p) ==
  /\ playerStates[p].present
  /\ hasEntity[p]
  /\ playerStates[p].score < ScoreCap
  /\ \E near \in 0..Len(cleanUpItems(playerStates[p]).items), order \in DrawnOrders :
       playerStates' = [playerStates EXCEPT
                          ![p] = tryCollectItem(@, near, now, order).st]
  /\ UNCHANGED <<objs, playerGameStates, hasEntity, pending, leaked, spawnIntervals, now>>

\* time passes
ClockAdvances ==
  /\ now < Epoch + MaxClockSteps * ClockStep
  /\ now' = now + ClockStep
  /\ UNCHANGED <<objs, playerGameStates, hasEntity, pending, leaked,
                 playerStates, spawnIntervals>>

NextCollector ==
  \/ \E p \in CollectorPlayers : CollectorJoined(p)
  \/ \E p \in CollectorPlayers : CollectorLeft(p)
  \/ \E p \in CollectorPlayers : CollectorRestart(p)
  \/ \E p \in CollectorPlayers : SpawnIntervalFires(p)
  \/ \E p \in CollectorPlayers, i \in 1..MaxItems : ItemLifetimeEnds(p, i)
  \/ CollectorTick
  \/ \E p \in CollectorPlayers : Collect(p)
  \/ ClockAdvances

SpecCollector == Init /\ [][NextCollector]_vars

\* ---------------------------------------------------------------- C32
\* the item at index near of the cleaned list is the next required item
IsNextRequired(st, near) ==
  /\ st.items[near].inOrder
  /\ st.items[near].code = st.currentOrder[st.orderProgress + 1]

\* the nearest items of p that are not the next required item
OtherItems(p) ==
  LET st == cleanUpItems(playerStates[p])
  IN {near \in 1..Len(st.items) : ~IsNextRequired(st, near)}

\* tryCollectItem on p's state with such an item nearest keeps every counter
KeepsCounters(p, near) ==
  \A order \in DrawnOrders :
    LET r == tryCollectItem(playerStates[p], near, now, order)
    IN /\ ~r.collected
       /\ r.st.score = playerStates[p].score
       /\ r.st.combo = playerStates[p].combo
       /\ r.st.orderProgress = playerStates[p].orderProgress
       /\ r.st.currentOrder = playerStates[p].currentOrder
       /\ r.st.lastCollectionTime = playerStates[p].lastCollectionTime
       /\ r.st.items[near].spawned

\* C32 as stated: tryCollectItem on a nearest item that is not the next
\* required code leaves score, combo, orderProgress and the item list
\* unchanged, and the item stays live.
C32_WrongItemLeavesList ==
  \A p \in CollectorPlayers : playerStates[p].present =>
    \A near \in OtherItems(p) :
      /\ KeepsCounters(p, near)
      /\ \A order \in DrawnOrders :
           tryCollectItem(playerStates[p], near, now, order).st.items
             = playerStates[p].items

\* C32 amended: tryCollectItem on a nearest item that is not the next required
\* code leaves score, combo, orderProgress and the live items of the list
\* unchanged, and the item stays live; the entries of the list that had
\* already despawned are spliced out by the call.
C32_WrongItemLeavesLiveItems ==
  \A p \in CollectorPlayers : playerStates[p].present =>
    \A near \in OtherItems(p) :
      /\ KeepsCounters(p, near)
      /\ \A order \in DrawnOrders :
           tryCollectItem(playerStates[p], near, now, order).st.items
             = SelectSeq(playerStates[p].items, isSpawned)

\* a player with a running combo has an item of the order in reach that is
\* not the next required one, next to an entry whose lifetime has ended
C32_Witness ==
  \E p \in CollectorPlayers :
    /\ playerStates[p].present
    /\ playerStates[p].combo >= 1
    /\ playerStates[p].score > 0
    /\ \E i \in 1..Len(playerStates[p].items) : ~playerStates[p].items[i].spawned
    /\ \E near \in OtherItems(p) : cleanUpItems(playerStates[p]).items[near].inOrder

\* ---------------------------------------------------------------- C33
\* the nearest items of p that are the next required item
NextItems(p) ==
  LET st == cleanUpItems(playerStates[p])
  IN {near \in 1..Len(st.items) : IsNextRequired(st, near)}

\* C33: a correct collection within COMBO_TIME_WINDOW of the previous one
\* increments combo and otherwise sets combo to 1; the points awarded are
\* POINTS_PER_ITEM + floor(POINTS_PER_ITEM * (combo - 1) / 2), plus
\* POINTS_PER_ORDER only when the collection completes the order, after which
\* a new order is generated with orderProgress 0.
C33_ComboAndPoints ==
  \A p \in CollectorPlayers : playerStates[p].present =>
    \A near \in NextItems(p), order \in DrawnOrders :
      LET st == playerStates[p]
          r == tryCollectItem(st, near, now, order)
          completes == st.orderProgress + 1 = ORDER_LENGTH
          points == r.st.score - st.score
      IN /\ r.collected
         /\ now - st.lastCollectionTime < COMBO_TIME_WINDOW => r.st.combo = st.combo + 1
         /\ now - st.lastCollectionTime >= COMBO_TIME_WINDOW => r.st.combo = 1
         /\ points = POINTS_PER_ITEM + (POINTS_PER_ITEM * (r.st.combo - 1)) \div 2
                     + (IF completes THEN POINTS_PER_ORDER ELSE 0)
         /\ completes => r.st.currentOrder = order /\ r.st.orderProgress = 0
         /\ ~completes => /\ r.st.currentOrder = st.currentOrder
                          /\ r.st.orderProgress = st.orderProgress + 1

\* an order completed by three collections: the second inside the window of
\* the first (10 + 15), the third outside it (10 + 50)
C33_Witness ==
  \E p \in CollectorPlayers :
    /\ playerStates[p].present
    /\ playerStates[p].score = 3 * POINTS_PER_ITEM + POINTS_PER_ITEM \div 2 + POINTS_PER_ORDER
    /\ playerStates[p].combo = 1
    /\ playerStates[p].orderProgress = 0
    /\ playerStates[p].lastCollectionTime >= Epoch + COMBO_TIME_WINDOW

\* ---------------------------------------------------------------- C37
\* C37: at most one item-spawn interval is active per connected player after
\* any sequence of joins and leaves.
C37_OneIntervalPerPlayer ==
  \A p \in CollectorPlayers : hasEntity[p] => spawnIntervals[p] <= 1
====
